---- MODULE Spec2Model ----
(***************************************************************************)
(* A model of dxf/__init__.py: the BigNum codec (_num_to_base64,           *)
(* _base64_to_num), the signed-manifest codec (DXF.set_alias,              *)
(* _verify_manifest) and the streaming digest guard (DXF.pull_blob).       *)
(*                                                                         *)
(* Text is modelled byte by byte: a Python str is a sequence of byte       *)
(* values (ASCII codes), so that slicing, rfind, split, lower, base64 and  *)
(* JSON serialisation act on the same bytes as in the program.             *)
(***************************************************************************)
EXTENDS Integers, Sequences, FiniteSets, TLC

\* ------------------------------------------------------------------------
\* Bytes and text literals
\* ------------------------------------------------------------------------

\* The printable ASCII characters, code 32 (space) to 126 (~), in order (code
\* 96, the grave accent, is spelled out: it is used in no literal).
CharTable ==
  << " ", "!", "\"", "#", "$", "%", "&", "'", "(", ")", "*", "+", ",", "-", ".", "/",
     "0", "1", "2", "3", "4", "5", "6", "7", "8", "9", ":", ";", "<", "=", ">", "?",
     "@", "A", "B", "C", "D", "E", "F", "G", "H", "I", "J", "K", "L", "M", "N", "O",
     "P", "Q", "R", "S", "T", "U", "V", "W", "X", "Y", "Z", "[", "\\", "]", "^", "_",
     "grave", "a", "b", "c", "d", "e", "f", "g", "h", "i", "j", "k", "l", "m", "n", "o",
     "p", "q", "r", "s", "t", "u", "v", "w", "x", "y", "z", "{", "|", "}", "~" >>

\* The byte value of a one-character string.
Ord(c) == 31 + (CHOOSE i \in 1..Len(CharTable) : CharTable[i] = c)

\* A text literal, written as a tuple of one-character strings, as bytes.
S(t) == [i \in 1..Len(t) |-> Ord(t[i])]

\* ------------------------------------------------------------------------
\* str helpers
\* ------------------------------------------------------------------------

\* The first position j >= i of s with Test(s[j]), Len(s) + 1 when there is none.
FirstAt(s, i, Test(_)) ==
  CHOOSE j \in i..(Len(s) + 1) :
    /\ j = Len(s) + 1 \/ Test(s[j])
    /\ \A k \in i..(j - 1) : ~Test(s[k])

\* The last position j <= i of s with Test(s[j]), 0 when there is none.
LastAt(s, i, Test(_)) ==
  CHOOSE j \in 0..i :
    /\ j = 0 \/ Test(s[j])
    /\ \A k \in (j + 1)..i : ~Test(s[k])

\* s.rstrip(c): s without its trailing bytes c.
RStrip(s, c) == LET NotC(b) == b # c IN SubSeq(s, 1, LastAt(s, Len(s), NotC))

\* c * k: k copies of byte c.
Repeat(c, k) == [i \in 1..k |-> c]

\* '=' , the base64 padding byte.
PadByte == Ord("=")

\* _pad64(s): s + '=' * (-len(s) % 4).
pad64(s) == s \o Repeat(PadByte, (0 - Len(s)) % 4)

\* ------------------------------------------------------------------------
\* base64 (URL-safe alphabet), as base64.urlsafe_b64encode / urlsafe_b64decode
\* of the Python 2 standard library compute it
\* ------------------------------------------------------------------------

\* The character of a 6-bit value: A-Z, a-z, 0-9, '-', '_'.
B64Char(v) ==
  IF v < 26 THEN 65 + v
  ELSE IF v < 52 THEN 71 + v
  ELSE IF v < 62 THEN v - 4
  ELSE IF v = 62 THEN 45 ELSE 95

\* The 6-bit value of a character, -1 for a character outside the alphabet.
\* urlsafe_b64decode first translates '-' to '+' and '_' to '/', so all four
\* of '-', '_', '+', '/' are accepted.
B64Val(c) ==
  IF c >= 65 /\ c <= 90 THEN c - 65
  ELSE IF c >= 97 /\ c <= 122 THEN c - 71
  ELSE IF c >= 48 /\ c <= 57 THEN c + 4
  ELSE IF c = 45 \/ c = 43 THEN 62
  ELSE IF c = 95 \/ c = 47 THEN 63
  ELSE 0 - 1

\* base64.urlsafe_b64encode(b): 4 characters for every 3 bytes, '=' padded.
urlsafe_b64encode(b) ==
  LET n == Len(b)
      g == (n + 2) \div 3
  IN [j \in 1..(4 * g) |->
        LET k  == (j - 1) \div 4
            p  == (j - 1) % 4
            b0 == b[3 * k + 1]
            b1 == IF 3 * k + 2 <= n THEN b[3 * k + 2] ELSE 0
            b2 == IF 3 * k + 3 <= n THEN b[3 * k + 3] ELSE 0
        IN CASE p = 0 -> B64Char(b0 \div 4)
             [] p = 1 -> B64Char((b0 % 4) * 16 + (b1 \div 16))
             [] p = 2 -> IF 3 * k + 2 > n THEN PadByte
                         ELSE B64Char((b1 % 16) * 4 + (b2 \div 64))
             [] OTHER -> IF 3 * k + 3 > n THEN PadByte ELSE B64Char(b2 % 64)]

InAlphabet(c) == B64Val(c) >= 0
IsPad(c) == c = PadByte

\* The number of alphabet characters of s before position p, modulo 4:
\* binascii.a2b_base64's quad_pos when it reads s[p].
QuadPos(s, p) == Len(SelectSeq(SubSeq(s, 1, p - 1), InAlphabet)) % 4

AlphabetOrPad(c) == InAlphabet(c) \/ IsPad(c)

\* Whether the pad at position p ends the input: binascii.a2b_base64 skips a
\* pad met with fewer than two characters of the quad read, and one met
\* after exactly two unless the next character that is in the alphabet or a
\* pad is a pad too.
PadEndsAt(s, q, nxt) == q = 3 \/ (q = 2 /\ nxt <= Len(s) /\ s[nxt] = PadByte)
PadEnds(s, p) == PadEndsAt(s, QuadPos(s, p), FirstAt(s, p + 1, AlphabetOrPad))

\* The position of the pad that ends the input, Len(s) + 1 when none does.
RECURSIVE PadStop(_, _)
PadStopAt(s, p) == IF p > Len(s) \/ PadEnds(s, p) THEN p ELSE PadStop(s, p + 1)
PadStop(s, i) == PadStopAt(s, FirstAt(s, i, IsPad))

\* The byte k of the 6-bit values of chars joined: bits 8(k-1) to 8k-1.
B64Byte(chars, k, q, r) ==
  (B64Val(chars[q + 1]) % (2 ^ (6 - r))) * (2 ^ (2 + r))
    + (B64Val(chars[q + 2]) \div (2 ^ (4 - r)))

\* binascii.a2b_base64: characters outside the alphabet are skipped, the
\* 6-bit values of the others are joined and cut into bytes; a pad in a
\* legal place ends the input (stopped), and bits left over when the input
\* ends without one are "Incorrect padding".
A2BChars(chars, stopped) ==
  [ok |-> stopped \/ (6 * Len(chars)) % 8 = 0,
   v |-> [k \in 1..((6 * Len(chars)) \div 8) |->
            B64Byte(chars, k, (8 * (k - 1)) \div 6, (8 * (k - 1)) % 6)]]
A2BUpTo(s, stop) ==
  A2BChars(SelectSeq(SubSeq(s, 1, stop - 1), InAlphabet), stop <= Len(s))
A2B(s) == A2BUpTo(s, PadStop(s, 1))

\* base64.urlsafe_b64decode(s): [ok, v]; not ok is Python's TypeError.
urlsafe_b64decode(s) == A2B(s)

\* ------------------------------------------------------------------------
\* BigNum codec
\* ------------------------------------------------------------------------

\* One iteration of `while n: b.insert(0, n & 0xFF); n >>= 8`.
NumLoopStep(st) == [n |-> st.n \div 256, b |-> <<st.n % 256>> \o st.b]

\* The loop of _num_to_base64 run to its end from (n, b).
RECURSIVE NumLoop(_)
NumLoop(st) == IF st.n # 0 THEN NumLoop(NumLoopStep(st)) ELSE st.b

\* `if len(b) == 0: b.insert(0, 0)`.
mut_NumZeroFix_none(b) == b
NumZeroFix(b) == IF Len(b) = 0 THEN <<0>> ELSE b

\* The bytes _num_to_base64(n) encodes.
num_to_bytes(n) == NumZeroFix(NumLoop([n |-> n, b |-> <<>>]))

\* _num_to_base64(n).
num_to_base64(n) == RStrip(urlsafe_b64encode(num_to_bytes(n)), PadByte)

\* sum((1 << ((m - bi)*8)) * bb for (bi, bb) in enumerate(b)), m = len(b) - 1.
RECURSIVE BytesToNum(_, _)
BytesToNum(b, i) ==
  IF i > Len(b) THEN 0 ELSE (2 ^ ((Len(b) - i) * 8)) * b[i] + BytesToNum(b, i + 1)

\* _base64_to_num(s): [ok, v]; not ok when the base64 text does not decode.
DecodedToNum(d) == [ok |-> d.ok, v |-> IF d.ok THEN BytesToNum(d.v, 1) ELSE 0]
base64_to_num(s) == DecodedToNum(urlsafe_b64decode(pad64(s)))

\* ------------------------------------------------------------------------
\* Python values as json.loads builds them and json.dumps prints them
\* ------------------------------------------------------------------------

\* Every value is a record of the same shape: t is the Python type, s the
\* bytes of a str, n an int, a the items of a list or the (key, value)
\* members of a dict in iteration order.
PyNone == [t |-> "NoneType", s |-> <<>>, n |-> 0, a |-> <<>>]
PyStr(s) == [t |-> "str", s |-> s, n |-> 0, a |-> <<>>]
PyInt(n) == [t |-> "int", s |-> <<>>, n |-> n, a |-> <<>>]
PyList(a) == [t |-> "list", s |-> <<>>, n |-> 0, a |-> a]
PyDict(m) == [t |-> "dict", s |-> <<>>, n |-> 0, a |-> m]
Member(k, v) == [k |-> k, v |-> v]

\* Python truthiness: None, 0, '', [] and {} are false.
Truthy(v) ==
  CASE v.t = "NoneType" -> FALSE
    [] v.t = "str" -> Len(v.s) > 0
    [] v.t = "int" -> v.n # 0
    [] OTHER -> Len(v.a) > 0

\* The index of the last member of dict d with key k, 0 when there is none:
\* json.loads keeps the last of several members with the same key.
RECURSIVE LastKey(_, _, _)
LastKey(m, k, i) ==
  IF i = 0 THEN 0 ELSE IF m[i].k = k THEN i ELSE LastKey(m, k, i - 1)

HasKey(d, k) == d.t = "dict" /\ LastKey(d.a, k, Len(d.a)) > 0

\* d[k], for a dict d that has the key.
GetKey(d, k) == d.a[LastKey(d.a, k, Len(d.a))].v

\* d.get(k): None when the key is missing.
DictGet(d, k) == IF HasKey(d, k) THEN GetKey(d, k) ELSE PyNone

\* str(n): the decimal digits, after '-' for a negative n.
RECURSIVE Decimal(_)
Decimal(n) == IF n < 0 THEN << 45 >> \o Decimal(0 - n) ELSE IF n < 10 THEN << 48 + n >> ELSE Append(Decimal(n \div 10), 48 + (n % 10))

Quote == Ord("\"")
Backslash == Ord("\\")

\* json.dumps of a str: '"' and '\' are escaped with a backslash.  (The
\* texts of the model hold no other byte that json.dumps escapes.)
NeedsEscape(c) == c = Quote \/ c = Backslash
RECURSIVE EscapeStr(_, _)
EscapeStrAt(s, i, j) ==
  IF j > Len(s) THEN SubSeq(s, i, Len(s))
  ELSE SubSeq(s, i, j - 1) \o << Backslash, s[j] >> \o EscapeStr(s, j + 1)
EscapeStr(s, i) == EscapeStrAt(s, i, FirstAt(s, i, NeedsEscape))

DumpStr(s) == << Quote >> \o EscapeStr(s, 1) \o << Quote >>

T_item_separator == S(<<",", " ">>)
T_key_separator == S(<<":", " ">>)
T_null == S(<<"n", "u", "l", "l">>)

\* json.dumps(v) with the default separators ', ' and ': '; '[' is byte 91,
\* ']' 93, '{' 123 and '}' 125.
RECURSIVE Dumps(_)
RECURSIVE DumpItems(_, _)
RECURSIVE DumpMembers(_, _)
Dumps(v) ==
  CASE v.t = "str" -> DumpStr(v.s)
    [] v.t = "int" -> Decimal(v.n)
    [] v.t = "list" -> << 91 >> \o DumpItems(v.a, 1) \o << 93 >>
    [] v.t = "dict" -> << 123 >> \o DumpMembers(v.a, 1) \o << 125 >>
    [] OTHER -> T_null
DumpItems(a, i) ==
  IF i > Len(a) THEN <<>>
  ELSE (IF i > 1 THEN T_item_separator ELSE <<>>) \o Dumps(a[i]) \o DumpItems(a, i + 1)
DumpMembers(m, i) ==
  IF i > Len(m) THEN <<>>
  ELSE (IF i > 1 THEN T_item_separator ELSE <<>>)
       \o DumpStr(m[i].k) \o T_key_separator \o Dumps(m[i].v) \o DumpMembers(m, i + 1)

\* json.loads.  A parse step returns [ok, v, i]: whether it succeeded, the
\* value and the position after it.
ParseFail == [ok |-> FALSE, v |-> PyNone, i |-> 0]
ParseOk(v, i) == [ok |-> TRUE, v |-> v, i |-> i]

IsSpace(c) == c = 32 \/ c = 9 \/ c = 10 \/ c = 13
IsDigit(c) == c >= 48 /\ c <= 57

RECURSIVE SkipSpace(_, _)
SkipSpace(s, i) == IF i <= Len(s) /\ IsSpace(s[i]) THEN SkipSpace(s, i + 1) ELSE i

\* The string whose opening quote is before position i: up to the closing
\* quote, with \" and \\ unescaped; any other escape, or a control
\* character, or no closing quote, is an error.
EndsChunk(c) == c = Quote \/ c = Backslash \/ c < 32
RECURSIVE ParseString(_, _, _)
ParseStringAt(s, j, chunk) ==
  IF j > Len(s) THEN ParseFail
  ELSE IF s[j] = Quote THEN ParseOk(PyStr(chunk), j + 1)
  ELSE IF s[j] = Backslash
       THEN IF j + 1 <= Len(s) /\ (s[j + 1] = Quote \/ s[j + 1] = Backslash)
            THEN ParseString(s, j + 2, Append(chunk, s[j + 1]))
            ELSE ParseFail
  ELSE ParseFail
ParseStringChunk(s, i, acc, j) == ParseStringAt(s, j, acc \o SubSeq(s, i, j - 1))
ParseString(s, i, acc) == ParseStringChunk(s, i, acc, FirstAt(s, i, EndsChunk))

\* A non-negative decimal integer starting at position i.
RECURSIVE ParseDigits(_, _, _)
ParseDigits(s, i, n) ==
  IF i <= Len(s) /\ IsDigit(s[i]) THEN ParseDigits(s, i + 1, 10 * n + (s[i] - 48))
  ELSE ParseOk(PyInt(n), i)

\* An integer without sign: 0, or digits that do not start with 0.  (Only
\* integers occur in the documents of the model: a fraction or an exponent
\* is left unread and is an error for the caller.)
ParseNumber(s, i) ==
  IF s[i] = 48 THEN ParseOk(PyInt(0), i + 1) ELSE ParseDigits(s, i, 0)

C_lbracket == Ord("[")
C_rbracket == Ord("]")
C_lbrace == Ord("{")
C_rbrace == Ord("}")
C_comma == Ord(",")
C_colon == Ord(":")
C_minus == Ord("-")

RECURSIVE ParseValue(_, _)
RECURSIVE ParseItems(_, _, _)
RECURSIVE ParseMembers(_, _, _)

Negated(r) == IF r.ok THEN ParseOk(PyInt(0 - r.v.n), r.i) ELSE ParseFail

\* After '[' and whitespace, at position j.
ParseListAt(s, j) ==
  IF j <= Len(s) /\ s[j] = C_rbracket THEN ParseOk(PyList(<<>>), j + 1)
  ELSE ParseItems(s, j, <<>>)

\* After '{' and whitespace, at position j.
ParseDictAt(s, j) ==
  IF j <= Len(s) /\ s[j] = C_rbrace THEN ParseOk(PyDict(<<>>), j + 1)
  ELSE ParseMembers(s, j, <<>>)

\* A value starting at position i (no whitespace before it).
ParseValue(s, i) ==
  IF i > Len(s) THEN ParseFail
  ELSE IF s[i] = Quote THEN ParseString(s, i + 1, <<>>)
  ELSE IF IsDigit(s[i]) THEN ParseNumber(s, i)
  ELSE IF s[i] = C_minus /\ i + 1 <= Len(s) /\ IsDigit(s[i + 1])
       THEN Negated(ParseNumber(s, i + 1))
  ELSE IF s[i] = C_lbracket THEN ParseListAt(s, SkipSpace(s, i + 1))
  ELSE IF s[i] = C_lbrace THEN ParseDictAt(s, SkipSpace(s, i + 1))
  ELSE ParseFail

\* After the item r of a list and whitespace, at position j: ']' ends the
\* list, ',' comes before the next item.
ParseItemsAfter(s, items, j) ==
  IF j > Len(s) THEN ParseFail
  ELSE IF s[j] = C_rbracket THEN ParseOk(PyList(items), j + 1)
  ELSE IF s[j] = C_comma THEN ParseItems(s, SkipSpace(s, j + 1), items)
  ELSE ParseFail
ParseItemsWith(s, acc, r) ==
  IF ~r.ok THEN ParseFail ELSE ParseItemsAfter(s, Append(acc, r.v), SkipSpace(s, r.i))
\* The items of a list from position i, the first character of an item.
ParseItems(s, i, acc) == ParseItemsWith(s, acc, ParseValue(s, i))

\* After a member of a dict and whitespace, at position j: '}' ends the
\* dict, ',' comes before the next member.
ParseMembersAfter(s, members, j) ==
  IF j > Len(s) THEN ParseFail
  ELSE IF s[j] = C_rbrace THEN ParseOk(PyDict(members), j + 1)
  ELSE IF s[j] = C_comma THEN ParseMembers(s, SkipSpace(s, j + 1), members)
  ELSE ParseFail
ParseMemberValue(s, acc, k, r) ==
  IF ~r.ok THEN ParseFail
  ELSE ParseMembersAfter(s, Append(acc, Member(k, r.v)), SkipSpace(s, r.i))
\* After the key k of a member and whitespace, at position c: ':' and the value.
ParseMemberColon(s, acc, k, c) ==
  IF c > Len(s) \/ s[c] # C_colon THEN ParseFail
  ELSE ParseMemberValue(s, acc, k, ParseValue(s, SkipSpace(s, c + 1)))
ParseMemberKey(s, acc, k) ==
  IF ~k.ok THEN ParseFail ELSE ParseMemberColon(s, acc, k.v.s, SkipSpace(s, k.i))
\* The members of a dict from position i, the opening quote of a key.
ParseMembers(s, i, acc) ==
  IF i > Len(s) \/ s[i] # Quote THEN ParseFail
  ELSE ParseMemberKey(s, acc, ParseString(s, i + 1, <<>>))

\* json.loads(s): [ok, v]; not ok is Python's ValueError.  Whitespace may
\* surround the document; anything else after it is "Extra data".
LoadsResult(s, r) ==
  IF r.ok /\ SkipSpace(s, r.i) = Len(s) + 1 THEN [ok |-> TRUE, v |-> r.v]
  ELSE [ok |-> FALSE, v |-> PyNone]
Loads(s) == LoadsResult(s, ParseValue(s, SkipSpace(s, 1)))

\* ------------------------------------------------------------------------
\* sha256
\* ------------------------------------------------------------------------

\* The hexadecimal digit (lower case, as hexdigest() prints) of a 4-bit value.
HexChar(v) == IF v < 10 THEN 48 + v ELSE 87 + v

\* Two hexadecimal digits for every byte.
HexEncode(b) ==
  [j \in 1..(2 * Len(b)) |->
     IF j % 2 = 1 THEN HexChar(b[(j + 1) \div 2] \div 16)
     ELSE HexChar(b[j \div 2] % 16)]

\* hashlib.sha256: update() appends to the data hashed so far and hexdigest()
\* prints the digest.  sha256 is modelled as a collision-free hash: the digest
\* of a byte string determines the byte string, so two digests are equal
\* exactly when the hashed data are equal.
sha256_update(h, data) == h \o data
sha256_hexdigest(h) == HexEncode(h)

\* `if dgst != digest` (pull_blob, _verify_manifest).
mut_DigestDiffers_never(dgst, digest) == FALSE
DigestDiffers(dgst, digest) == dgst # digest

\* ------------------------------------------------------------------------
\* Python str operations used on the manifest
\* ------------------------------------------------------------------------

Min(a, b) == IF a < b THEN a ELSE b
Max(a, b) == IF a > b THEN a ELSE b

\* s[:n], with Python's meaning of a negative or too large n.
SliceTo(s, n) ==
  IF n >= 0 THEN SubSeq(s, 1, Min(n, Len(s))) ELSE SubSeq(s, 1, Max(Len(s) + n, 0))

\* s[n:].
SliceFrom(s, n) ==
  IF n >= 0 THEN SubSeq(s, Min(n, Len(s)) + 1, Len(s))
  ELSE SubSeq(s, Max(Len(s) + n, 0) + 1, Len(s))

\* s.find(c): the 0-based index of the first byte c of s, -1 when there is none.
FindAt(s, j) == IF j > Len(s) THEN 0 - 1 ELSE j - 1
Find(s, c) == LET IsC(b) == b = c IN FindAt(s, FirstAt(s, 1, IsC))

\* s.rfind(c): the 0-based index of the last byte c of s, -1 when there is none.
\* manifest_json.rfind('}') in set_alias.
mut_RFind_first(s, c) == Find(s, c)
RFind(s, c) == LET IsC(b) == b = c IN LastAt(s, Len(s), IsC) - 1

\* s.split(':'): the parts of s between the colons.
IsColon(c) == c = C_colon
RECURSIVE SplitColon(_, _)
SplitColonAt(s, i, j) ==
  IF j > Len(s) THEN << SubSeq(s, i, Len(s)) >>
  ELSE << SubSeq(s, i, j - 1) >> \o SplitColon(s, j + 1)
SplitColon(s, i) == SplitColonAt(s, i, FirstAt(s, i, IsColon))

Split(s) == SplitColon(s, 1)

\* s.lower(): A-Z become a-z.
Lower(s) == [i \in 1..Len(s) |-> IF s[i] >= 65 /\ s[i] <= 90 THEN s[i] + 32 ELSE s[i]]

\* ------------------------------------------------------------------------
\* ecdsa and jws (the libraries set_alias and _verify_manifest call)
\* ------------------------------------------------------------------------

\* ecdsa.SigningKey.generate draws one of MaxKeys private keys.
MaxKeys == 2
PrivateKeys == 1..MaxKeys

\* key.privkey.public_key.point: the public point of a private key.  The
\* coordinates are one- to three-byte integers, different for every key.
PublicPoint(d) == [x |-> 254 + d, y |-> 65535 + d]

\* The points on the curve: ecdsa.ellipticcurve.Point refuses any other.
OnCurve(pt) == \E d \in PrivateKeys : PublicPoint(d) = pt

\* The jws signer of ES256.  The signature scheme is modelled as correct and
\* unforgeable: a signature names its private key and the message it was
\* made for, and verifies under the matching public key for that message
\* only.
ES256Sign(msg, d) == << d >> \o msg

\* The jws verifier of ES256: TRUE when the signature is one of msg under
\* the private key of the point vk; FALSE is jws's SignatureError.
mut_ES256Verify_any(msg, sig, vk) == TRUE
ES256Verify(msg, sig, vk) ==
  \E d \in PrivateKeys : PublicPoint(d) = vk /\ sig = ES256Sign(msg, d)

\* ------------------------------------------------------------------------
\* Names and literals of the wire format
\* ------------------------------------------------------------------------

K_name == S(<<"n", "a", "m", "e">>)
K_tag == S(<<"t", "a", "g">>)
K_fsLayers == S(<<"f", "s", "L", "a", "y", "e", "r", "s">>)
K_blobSum == S(<<"b", "l", "o", "b", "S", "u", "m">>)
K_signatures == S(<<"s", "i", "g", "n", "a", "t", "u", "r", "e", "s">>)
K_header == S(<<"h", "e", "a", "d", "e", "r">>)
K_jwk == S(<<"j", "w", "k">>)
K_kty == S(<<"k", "t", "y">>)
K_crv == S(<<"c", "r", "v">>)
K_x == S(<<"x">>)
K_y == S(<<"y">>)
K_alg == S(<<"a", "l", "g">>)
K_chain == S(<<"c", "h", "a", "i", "n">>)
K_signature == S(<<"s", "i", "g", "n", "a", "t", "u", "r", "e">>)
K_protected == S(<<"p", "r", "o", "t", "e", "c", "t", "e", "d">>)
K_formatLength == S(<<"f", "o", "r", "m", "a", "t", "L", "e", "n", "g", "t", "h">>)
K_formatTail == S(<<"f", "o", "r", "m", "a", "t", "T", "a", "i", "l">>)
T_EC == S(<<"E", "C">>)
T_P256 == S(<<"P", "-", "2", "5", "6">>)
T_ES256 == S(<<"E", "S", "2", "5", "6">>)
T_none == S(<<"n", "o", "n", "e">>)
T_sha256 == S(<<"s", "h", "a", "2", "5", "6">>)
T_sha256_colon == S(<<"s", "h", "a", "2", "5", "6", ":">>)
T_dot == S(<<".">>)
\* ', "signatures": ' , the text set_alias puts before the signatures array.
T_signatures_member ==
  S(<<",", " ", "\"", "s", "i", "g", "n", "a", "t", "u", "r", "e", "s", "\"", ":", " ">>)

\* ------------------------------------------------------------------------
\* DXF.set_alias
\* ------------------------------------------------------------------------

\* The value of one of the manifest's three keys.
ManifestValue(k, repo, alias, digests) ==
  IF k = K_name THEN PyStr(repo)
  ELSE IF k = K_tag THEN PyStr(alias)
  ELSE PyList([i \in 1..Len(digests) |->
                 PyDict(<< Member(K_blobSum, PyStr(T_sha256_colon \o digests[i])) >>)])

\* The dict `manifest`; order is the order in which json.dumps meets its
\* keys (the iteration order of a Python 2 dict, which the program does not
\* choose).
ManifestDict(repo, alias, digests, order) ==
  PyDict([i \in 1..Len(order) |->
            Member(order[i], ManifestValue(order[i], repo, alias, digests))])

\* base64.urlsafe_b64encode(s).rstrip('=').
Unpadded64(s) == RStrip(urlsafe_b64encode(s), PadByte)

\* The dict of the protected header.
ProtectedDict(format_length, format_tail) ==
  PyDict(<< Member(K_formatTail,
                   PyStr(Unpadded64(format_tail))),
            Member(K_formatLength, PyInt(format_length)) >>)

\* The "%s.%s" % (protected64, payload64) that is signed and verified.
SigningInput(protected64, payload64) == protected64 \o T_dot \o payload64

\* The public JWK of a point.
JwkDict(pt) ==
  PyDict(<< Member(K_y, PyStr(num_to_base64(pt.y))),
            Member(K_x, PyStr(num_to_base64(pt.x))),
            Member(K_crv, PyStr(T_P256)),
            Member(K_kty, PyStr(T_EC)) >>)

\* One entry of `signatures`, as set_alias builds it.
SignatureDict(pt, sig, protected64) ==
  PyDict(<< Member(K_header,
                   PyDict(<< Member(K_alg, PyStr(T_ES256)),
                             Member(K_jwk, JwkDict(pt)) >>)),
            Member(K_protected, PyStr(protected64)),
            Member(K_signature, PyStr(Unpadded64(sig))) >>)

\* manifest_json[:format_length] + ', "signatures": ' + <array> + format_tail.
Splice(manifest_json, format_length, format_tail, signatures_json) ==
  SliceTo(manifest_json, format_length) \o T_signatures_member
    \o signatures_json \o format_tail

\* protected64 of set_alias: the unpadded base64 of the JSON of the
\* protected header of manifest_json.
Protected64(manifest_json) ==
  LET format_length == RFind(manifest_json, C_rbrace)
  IN Unpadded64(Dumps(ProtectedDict(format_length,
                                    SliceFrom(manifest_json, format_length))))

\* The signing and the splice of set_alias, given what it encoded.
SignAndSplice(manifest_json, manifest64, protected64, d) ==
  LET format_length == RFind(manifest_json, C_rbrace)
      format_tail == SliceFrom(manifest_json, format_length)
  IN [ manifest_json |-> manifest_json,
       manifest64 |-> manifest64,
       format_length |-> format_length,
       format_tail |-> format_tail,
       protected64 |-> protected64,
       wire |-> Splice(manifest_json, format_length, format_tail,
                       Dumps(PyList(<< SignatureDict(
                         PublicPoint(d),
                         ES256Sign(SigningInput(protected64, manifest64), d),
                         protected64) >>))) ]

EncodeAndSign(manifest_json, d) ==
  SignAndSplice(manifest_json, Unpadded64(manifest_json), Protected64(manifest_json), d)

\* set_alias(alias, *digests) on DXF(host, repo) with the generated key d:
\* the manifest JSON before the signature and the text that is uploaded and
\* returned.
set_alias(repo, alias, digests, d, order) ==
  EncodeAndSign(Dumps(ManifestDict(repo, alias, digests, order)), d)

\* ------------------------------------------------------------------------
\* _verify_manifest, statement by statement
\* ------------------------------------------------------------------------

\* d[k] with the exception it may raise: [err, v].
Field(d, k) ==
  IF d.t # "dict" THEN [err |-> "TypeError", v |-> PyNone]
  ELSE IF ~HasKey(d, k) THEN [err |-> "KeyError", v |-> PyNone]
  ELSE [err |-> "", v |-> GetKey(d, k)]

\* v.encode('utf-8'), v.lower(), v.split(':') exist for a str only.
StrErr(v) == IF v.t = "str" THEN "" ELSE "AttributeError"

\* The first exception raised by statements that raise errs[1], errs[2], ...
\* ("" for a statement that raises nothing).
Raises(e) == e # ""
FirstErrAt(errs, i) == IF i > Len(errs) THEN "" ELSE errs[i]
FirstErr(errs) == FirstErrAt(errs, FirstAt(errs, 1, Raises))

\* A failed base64 decoding is TypeError (Python 2), a failed json.loads
\* ValueError.
DecodeErr(r) == IF r.ok THEN "" ELSE "TypeError"
LoadsErr(r) == IF r.ok THEN "" ELSE "ValueError"

\* `if jwk[k] != expected: raise DXFUnexpectedKeyTypeError`.
KeyTypeErr(f, expected) ==
  FirstErr(<< f.err,
              IF f.v.t # "str" \/ f.v.s # expected
                THEN "DXFUnexpectedKeyTypeError" ELSE "" >>)

\* _base64_to_num(jwk[k]): [err, n].
CoordResult(f, n) ==
  [err |-> FirstErr(<< f.err, StrErr(f.v), DecodeErr(n) >>), n |-> n.v]
Coord(f) == CoordResult(f, base64_to_num(f.v.s))

\* from_public_point asserts that the point is on the curve.
KeyResult(kty, crv, x, y) ==
  [ err |-> FirstErr(<< kty, crv, x.err, y.err,
                        IF OnCurve([x |-> x.n, y |-> y.n]) THEN "" ELSE "AssertionError" >>),
    key |-> [x |-> x.n, y |-> y.n] ]

\* _jwk_to_key(jwk): [err, key].
jwk_to_key(jwk) ==
  KeyResult(KeyTypeErr(Field(jwk, K_kty), T_EC), KeyTypeErr(Field(jwk, K_crv), T_P256),
            Coord(Field(jwk, K_x)), Coord(Field(jwk, K_y)))

\* `if alg.lower() == 'none'`.
mut_AlgIsNone_exact(alg) == alg = T_none
AlgIsNone(alg) == Lower(alg) = T_none

\* `if sig['header'].get('chain')`.
ChainDeclared(header) == Truthy(DictGet(header, K_chain))

\* Lines 58-60, protected64 to protected_header: [err, protected64, header].
ProtectedResult(prot, protected, protected_header) ==
  [ err |-> FirstErr(<< prot.err, StrErr(prot.v), DecodeErr(protected),
                        LoadsErr(protected_header) >>),
    protected64 |-> prot.v.s,
    header |-> protected_header.v ]
ProtectedLoaded(prot, protected) == ProtectedResult(prot, protected, Loads(protected.v))
ProtectedDecoded(prot) == ProtectedLoaded(prot, urlsafe_b64decode(pad64(prot.v.s)))
ReadProtected(sig) == ProtectedDecoded(Field(sig, K_protected))

\* Lines 62-64, format_length to format_tail: [err, format_length, format_tail].
FormatResult(format_length, tail64, format_tail) ==
  [ err |-> FirstErr(<< format_length.err, tail64.err, StrErr(tail64.v),
                        DecodeErr(format_tail) >>),
    format_length |-> format_length.v,
    format_tail |-> format_tail.v ]
FormatDecoded(format_length, tail64) ==
  FormatResult(format_length, tail64, urlsafe_b64decode(pad64(tail64.v.s)))
ReadFormat(protected_header) ==
  FormatDecoded(Field(protected_header, K_formatLength),
                Field(protected_header, K_formatTail))

\* Lines 66-70, alg and the two checks of the header: [err, alg].
AlgResult(header, alg) ==
  [ err |-> FirstErr(<< header.err, alg.err, StrErr(alg.v),
                        IF AlgIsNone(alg.v.s)
                          THEN "DXFDisallowedSignatureAlgorithmError" ELSE "",
                        IF ChainDeclared(header.v)
                          THEN "DXFChainNotImplementedError" ELSE "" >>),
    alg |-> alg.v.s ]
AlgOfHeader(header) == AlgResult(header, Field(header.v, K_alg))
ReadAlg(sig) == AlgOfHeader(Field(sig, K_header))

\* Lines 72-79, sig['signature'] and the key: [err, signature, key].
SignatureAndKey(signature, jwk, key) ==
  [ err |-> FirstErr(<< signature.err, jwk.err, key.err >>),
    signature |-> signature.v,
    key |-> key.key ]
KeyOfJwk(signature, jwk) == SignatureAndKey(signature, jwk, jwk_to_key(jwk.v))
ReadKey(sig) == KeyOfJwk(Field(sig, K_signature), Field(DictGet(sig, K_header), K_jwk))

\* One iteration of `for sig in manifest['signatures']` (lines 58-79):
\* [err, entry], the exception raised or the dict appended to signatures.
EntryResult(p, f, a, k) ==
  [ err |-> FirstErr(<< p.err, f.err, a.err, k.err >>),
    entry |-> [ alg |-> a.alg,
                signature |-> k.signature,
                protected64 |-> p.protected64,
                key |-> k.key,
                format_length |-> f.format_length,
                format_tail |-> f.format_tail ] ]
EntryOfProtected(sig, p) == EntryResult(p, ReadFormat(p.header), ReadAlg(sig), ReadKey(sig))
VerifyEntryBody(sig) == EntryOfProtected(sig, ReadProtected(sig))

\* content[:signatures[0]['format_length']] + signatures[0]['format_tail']
\* (lines 81-82): [err, payload].
mut_ReconstructPayload_whole(content, signatures) ==
  [err |-> IF Len(signatures) = 0 THEN "IndexError" ELSE "", payload |-> content]
ReconstructPayload(content, signatures) ==
  IF Len(signatures) = 0 THEN [err |-> "IndexError", payload |-> <<>>]
  ELSE IF signatures[1].format_length.t # "int" THEN [err |-> "TypeError", payload |-> <<>>]
  ELSE [err |-> "",
        payload |-> SliceTo(content, signatures[1].format_length.n)
                      \o signatures[1].format_tail]

\* `if content_digest:` ... (lines 85-93): the exception raised, "" for none.
\* content_digest is <<>> when no digest is given.
mut_CheckContentDigest_skip(content_digest, payload) == ""
CheckContentDigest(content_digest, payload) ==
  IF Len(content_digest) = 0 THEN ""
  ELSE IF Len(Split(content_digest)) # 2 THEN "ValueError"
  ELSE IF Split(content_digest)[1] # T_sha256 THEN "DXFUnexpectedDigestMethodError"
  ELSE IF DigestDiffers(sha256_hexdigest(sha256_update(<<>>, payload)),
                        Split(content_digest)[2])
       THEN "DXFDigestMismatchError"
  ELSE ""

\* One iteration of `for sig in signatures` (lines 96-106): the exception
\* raised, "" for none.  jws.header.process finds a verifier for the
\* algorithm; of the algorithms of the model only ES256 has one that takes
\* an EC key.
VerifyDecoded(sig, payload64, raw) ==
  FirstErr(<<
    IF sig.alg = T_ES256 THEN "" ELSE "AlgorithmNotImplemented",
    StrErr(sig.signature),
    DecodeErr(raw),
    IF ES256Verify(SigningInput(sig.protected64, payload64), raw.v, sig.key)
      THEN "" ELSE "SignatureError" >>)
VerifySignatureBody(sig, payload64) ==
  VerifyDecoded(sig, payload64, urlsafe_b64decode(pad64(sig.signature.s)))

\* The signatures the second loop verifies.
mut_EntriesToVerify_first(signatures) == SubSeq(signatures, 1, 1)
EntriesToVerify(signatures) == signatures

\* One iteration of `for layer in manifest['fsLayers']` (lines 110-113):
\* [err, dgst].
LayerParts(blobSum, parts) ==
  [ err |-> FirstErr(<<
              blobSum.err, StrErr(blobSum.v),
              IF Len(parts) # 2 THEN "ValueError" ELSE "",
              IF parts[1] # T_sha256 THEN "DXFUnexpectedDigestMethodError" ELSE "" >>),
    dgst |-> IF Len(parts) = 2 THEN parts[2] ELSE <<>> ]
LayerSplit(blobSum) == LayerParts(blobSum, Split(blobSum.v.s))
LayerBody(layer) == LayerSplit(Field(layer, K_blobSum))

\* Lines 108-114: [err, dgsts].
LayersResult(layers, each) ==
  [ err |-> FirstErr(<< layers.err,
                        IF layers.v.t \in {"list", "dict", "str"} THEN "" ELSE "TypeError",
                        IF layers.v.t \in {"dict", "str"} /\ Truthy(layers.v)
                          THEN "TypeError" ELSE "" >>
                     \o [i \in 1..Len(each) |-> each[i].err]),
    dgsts |-> [i \in 1..Len(each) |-> each[i].dgst] ]
LayersEach(layers, items) ==
  LayersResult(layers, [i \in 1..Len(items) |-> LayerBody(items[i])])
LayersOf(layers) == LayersEach(layers, IF layers.v.t = "list" THEN layers.v.a ELSE <<>>)
ReadLayers(manifest) == LayersOf(Field(manifest, K_fsLayers))

\* ------------------------------------------------------------------------
\* State
\* ------------------------------------------------------------------------

VARIABLES
  \* _num_to_base64 / _base64_to_num
  num_pc,        \* "loop", "encoded", "decoded", "decoded_ext", "idle"
  num_in,        \* the argument n of _num_to_base64
  num_st,        \* [n, b]: the loop's n and the bytearray b
  num_s,         \* the string _num_to_base64 returned (or an external one)
  num_out,       \* what _base64_to_num returned: [ok, v]
  \* DXF.pull_blob (a generator)
  blob_pc,       \* "created", "yielded", "stopped", "raised", "closed", "idle"
  blob_chunks,   \* r.iter_content(8192): the chunks of the response
  blob_digest,   \* the argument digest
  blob_pos,      \* the number of chunks taken from the response
  blob_sha256,   \* the data given to sha256.update so far
  blob_recv,     \* the chunks the consumer has been handed
  blob_err,      \* the exception raised: <<>> or <<name, dgst, digest>>
  \* DXF.set_alias, the registry, _verify_manifest
  man_pc,        \* "idle", "registry", "verify", "entries", "signatures",
                 \* "returned", "raised"
  pub,           \* what set_alias was called with and what it built
  tamper,        \* what happened to the document at the registry: [kind, pos]
  content,       \* the manifest text: uploaded, stored, then r.content
  content_digest,\* the argument content_digest, <<>> for None
  manifest,      \* json.loads(content)
  signatures,    \* the list the first loop builds
  payload,       \* the reconstructed payload
  payload64,     \* its unpadded base64
  v_i,           \* the index of the current loop's next item
  nverify,       \* the number of iterations of the second loop begun, each
                 \* a signature-verification step
  man_err,       \* the exception _verify_manifest raised, "" for none
  dgsts          \* the list _verify_manifest returned

numVars == << num_pc, num_in, num_st, num_s, num_out >>
blobVars == << blob_pc, blob_chunks, blob_digest, blob_pos, blob_sha256,
               blob_recv, blob_err >>

manVars == << man_pc, pub, tamper, content, content_digest, manifest, signatures,
              payload, payload64, v_i, nverify, man_err, dgsts >>

NoPub ==
  [ repo |-> <<>>, alias |-> <<>>, digests |-> <<>>, d |-> 0, order |-> <<>>,
    manifest_json |-> <<>>, manifest64 |-> <<>>, format_length |-> 0,
    format_tail |-> <<>>, protected64 |-> <<>>, wire |-> <<>> ]

NoTamper == [kind |-> "none", pos |-> 0]

\* Nothing has been published or verified.
ManInit ==
  /\ man_pc = "idle"
  /\ pub = NoPub
  /\ tamper = NoTamper
  /\ content = <<>>
  /\ content_digest = <<>>
  /\ manifest = PyNone
  /\ signatures = <<>>
  /\ payload = <<>>
  /\ payload64 = <<>>
  /\ v_i = 0
  /\ nverify = 0
  /\ man_err = ""
  /\ dgsts = <<>>

ManIdle == ManInit

NumIdle ==
  /\ num_pc = "idle"
  /\ num_in = 0
  /\ num_st = [n |-> 0, b |-> <<>>]
  /\ num_s = <<>>
  /\ num_out = [ok |-> FALSE, v |-> 0]

BlobIdle ==
  /\ blob_pc = "idle"
  /\ blob_chunks = <<>>
  /\ blob_digest = <<>>
  /\ blob_pos = 0
  /\ blob_sha256 = <<>>
  /\ blob_recv = <<>>
  /\ blob_err = <<>>

\* ------------------------------------------------------------------------
\* BigNum codec: the state machine
\* ------------------------------------------------------------------------

\* The integers 0..MaxNum are encoded, and a few larger ones around the
\* 2-, 3- and 4-byte boundaries.
MaxNum == 300
\* An external producer may put up to MaxLeadingZeros zero bytes in front.
MaxLeadingZeros == 2

NumInputs == (0..MaxNum) \cup {65535, 65536, 16777215, 16777216, 2147483647}

\* _num_to_base64(n) is called.
NumInit ==
  /\ num_pc = "loop"
  /\ num_in \in NumInputs
  /\ num_st = [n |-> num_in, b |-> <<>>]
  /\ num_s = <<>>
  /\ num_out = [ok |-> FALSE, v |-> 0]

\* One iteration of the while loop.
NumShift ==
  /\ num_pc = "loop"
  /\ num_st.n # 0
  /\ num_st' = NumLoopStep(num_st)
  /\ UNCHANGED << num_pc, num_in, num_s, num_out >>

\* The loop ends: the zero fix, the base64 encoding and rstrip('=').
NumEncode ==
  /\ num_pc = "loop"
  /\ num_st.n = 0
  /\ num_st' = [num_st EXCEPT !.b = NumZeroFix(num_st.b)]
  /\ num_s' = RStrip(urlsafe_b64encode(NumZeroFix(num_st.b)), PadByte)
  /\ num_pc' = "encoded"
  /\ UNCHANGED << num_in, num_out >>

\* _base64_to_num on the string _num_to_base64 returned.
NumDecode ==
  /\ num_pc = "encoded"
  /\ num_out' = base64_to_num(num_s)
  /\ num_pc' = "decoded"
  /\ UNCHANGED << num_in, num_st, num_s >>

\* _base64_to_num on another producer's encoding of the same integer: the
\* same bytes with z more zero bytes in front.
NumDecodeExternal ==
  /\ num_pc = "encoded"
  /\ \E z \in 1..MaxLeadingZeros :
       \* the model's integers are 32 bits wide: at most 4 bytes are decoded
       /\ Len(num_st.b) + z <= 4
       /\ num_s' = RStrip(urlsafe_b64encode(Repeat(0, z) \o num_st.b), PadByte)
       /\ num_out' = base64_to_num(num_s')
  /\ num_pc' = "decoded_ext"
  /\ UNCHANGED << num_in, num_st >>

\* ------------------------------------------------------------------------
\* DXF.pull_blob: the generator's state machine
\* ------------------------------------------------------------------------

\* A response has at most MaxChunks chunks.
MaxChunks == 3

\* The chunks a response is made of: "abc", "def", "a".
ChunkValues == { S(<<"a", "b", "c">>), S(<<"d", "e", "f">>), S(<<"a">>) }

RECURSIVE SeqsUpTo(_, _)
SeqsUpTo(V, n) ==
  IF n = 0 THEN { <<>> }
  ELSE LET shorter == SeqsUpTo(V, n - 1)
       IN shorter \cup { Append(q, v) : q \in { x \in shorter : Len(x) = n - 1 }, v \in V }

RECURSIVE Concat(_)
Concat(q) == IF q = <<>> THEN <<>> ELSE Head(q) \o Concat(Tail(q))

\* pull_blob(digest) is called: the generator object exists and none of its
\* body has run.  The digest asked for is that of some blob.
BlobInit ==
  /\ blob_pc = "created"
  /\ blob_chunks \in SeqsUpTo(ChunkValues, MaxChunks)
  /\ blob_digest \in { sha256_hexdigest(Concat(q)) : q \in SeqsUpTo(ChunkValues, MaxChunks) }
  /\ blob_pos = 0
  /\ blob_sha256 = <<>>
  /\ blob_recv = <<>>
  /\ blob_err = <<>>

\* next(): the loop takes the next chunk, updates the hash and yields it.
PullChunk ==
  /\ blob_pc \in {"created", "yielded"}
  /\ blob_pos < Len(blob_chunks)
  /\ blob_pos' = blob_pos + 1
  /\ blob_sha256' = sha256_update(blob_sha256, blob_chunks[blob_pos + 1])
  /\ blob_recv' = Append(blob_recv, blob_chunks[blob_pos + 1])
  /\ blob_pc' = "yielded"
  /\ UNCHANGED << blob_chunks, blob_digest, blob_err >>

\* next() when the response is exhausted: the loop ends and the digests are
\* compared; the generator raises DXFDigestMismatchError or StopIteration.
PullEnd ==
  /\ blob_pc \in {"created", "yielded"}
  /\ blob_pos = Len(blob_chunks)
  /\ LET dgst == sha256_hexdigest(blob_sha256)
     IN IF DigestDiffers(dgst, blob_digest)
        THEN /\ blob_pc' = "raised"
             /\ blob_err' = << "DXFDigestMismatchError", dgst, blob_digest >>
        ELSE /\ blob_pc' = "stopped"
             /\ blob_err' = <<>>
  /\ UNCHANGED << blob_chunks, blob_digest, blob_pos, blob_sha256, blob_recv >>

\* The consumer stops pulling: the generator is closed (GeneratorExit at the
\* yield, or never started) and nothing after the loop runs.
PullAbandon ==
  /\ blob_pc \in {"created", "yielded"}
  /\ blob_pc' = "closed"
  /\ UNCHANGED << blob_chunks, blob_digest, blob_pos, blob_sha256, blob_recv, blob_err >>

\* ------------------------------------------------------------------------
\* The signed manifest: set_alias, the registry, get_alias/_verify_manifest
\* ------------------------------------------------------------------------

\* A manifest lists at most MaxLayers blobs.
MaxLayers == 2

\* The hex digests of blobs: "aa", "b0".
BlobDigests == { S(<<"a", "a">>), S(<<"b", "0">>) }

\* Repository names and tags, some with the bytes the format gives a
\* meaning to: r, a}, "\ and t, 1}.
RepoNames == { S(<<"r">>), S(<<"a", "}">>), S(<<"\"", "\\">>) }
TagNames == { S(<<"t">>), S(<<"1", "}">>) }

\* The orders in which a dict of the three keys can be iterated.
ManifestOrders ==
  { << K_tag, K_name, K_fsLayers >>, << K_name, K_tag, K_fsLayers >>,
    << K_fsLayers, K_tag, K_name >>, << K_fsLayers, K_name, K_tag >>,
    << K_name, K_fsLayers, K_tag >>, << K_tag, K_fsLayers, K_name >> }

\* DXF(host, repo).set_alias(alias, *digests): the manifest is built, signed
\* with a fresh key and uploaded.
Published(repo, alias, digests, d, order, r) ==
  /\ pub' = [ repo |-> repo, alias |-> alias, digests |-> digests, d |-> d,
              order |-> order,
              manifest_json |-> r.manifest_json, manifest64 |-> r.manifest64,
              format_length |-> r.format_length, format_tail |-> r.format_tail,
              protected64 |-> r.protected64, wire |-> r.wire ]
  /\ content' = r.wire
SetAlias(repos, tags, lists, keys, orders) ==
  /\ man_pc = "idle"
  /\ \E repo \in repos, alias \in tags, digests \in lists, d \in keys, order \in orders :
       Published(repo, alias, digests, d, order,
                 set_alias(repo, alias, digests, d, order))
  /\ man_pc' = "registry"
  /\ UNCHANGED << tamper, content_digest, manifest, signatures, payload, payload64,
                  v_i, nverify, man_err, dgsts >>

\* 'sha256:' + the digest of the manifest JSON that was signed: what a
\* registry gives as docker-content-digest.
RegistryDigest == T_sha256_colon \o sha256_hexdigest(pub.manifest_json)

\* A digest of the right form for other content.
OtherDigest == T_sha256_colon \o sha256_hexdigest(S(<<"{", "}">>))

\* A digest made with another method.
Sha1Digest == S(<<"s", "h", "a", "1", ":">>) \o sha256_hexdigest(pub.manifest_json)

\* get_alias(alias): the document is fetched and _verify_manifest is called
\* with the digest header (or, called directly, with no digest).
Fetch(digests) ==
  /\ man_pc = "registry"
  /\ content_digest' \in digests
  /\ man_pc' = "verify"
  /\ UNCHANGED << pub, tamper, content, manifest, signatures, payload, payload64,
                  v_i, nverify, man_err, dgsts >>

\* The bytes a stored document's byte may be changed to: a newline and 'A'.
TamperBytes == { 10, Ord("A") }

\* Between upload and download one byte of the document is changed.
TamperByte ==
  /\ man_pc = "registry"
  /\ tamper.kind = "none"
  /\ \E i \in 1..Len(content), b \in TamperBytes :
       /\ b # content[i]
       /\ content' = [content EXCEPT ![i] = b]
       /\ tamper' = [kind |-> "byte", pos |-> i]
  /\ UNCHANGED << man_pc, pub, content_digest, manifest, signatures, payload,
                  payload64, v_i, nverify, man_err, dgsts >>

\* The entry set_alias put in the signatures array.
OwnEntry ==
  SignatureDict(PublicPoint(pub.d),
                ES256Sign(SigningInput(pub.protected64, pub.manifest64), pub.d),
                pub.protected64)

\* The algorithms another entry may declare.
ForgedAlgs ==
  { T_ES256, T_none, S(<<"N", "O", "N", "E">>), S(<<"N", "o", "n", "e">>),
    S(<<"H", "S", "2", "5", "6">>) }

\* The key types another entry may declare.
ForgedKtys == { T_EC, S(<<"R", "S", "A">>) }

\* What the header of another entry may hold as chain: no such member, an
\* empty list, a list of one certificate.
ForgedChains == { "absent", "empty", "certs" }

\* Another signature entry over the same protected header, by the holder of
\* key d: its header declares alg, a key of type kty and, unless chain is
\* "absent", a chain; its signature is one of the signed payload when sound,
\* of other data when not.
OtherJwk(pt, kty) ==
  PyDict(<< Member(K_y, PyStr(num_to_base64(pt.y))),
            Member(K_x, PyStr(num_to_base64(pt.x))),
            Member(K_crv, PyStr(T_P256)),
            Member(K_kty, PyStr(kty)) >>)
OtherChain(chain) ==
  IF chain = "absent" THEN <<>>
  ELSE IF chain = "empty" THEN << Member(K_chain, PyList(<<>>)) >>
  ELSE << Member(K_chain, PyList(<< PyStr(S(<<"c">>)) >>)) >>
OtherEntry(d, alg, chain, kty, sound) ==
  PyDict(<< Member(K_header,
                   PyDict(<< Member(K_alg, PyStr(alg)),
                             Member(K_jwk, OtherJwk(PublicPoint(d), kty)) >>
                          \o OtherChain(chain))),
            Member(K_protected, PyStr(pub.protected64)),
            Member(K_signature,
                   PyStr(Unpadded64(ES256Sign(
                     SigningInput(pub.protected64,
                                  IF sound THEN pub.manifest64 ELSE <<>>), d)))) >>)

\* The signatures array of the stored document.
StoredEntries(m) == GetKey(m, K_signatures).a

\* The stored document with the entry e before (first) or after the entries
\* it has.
WithEntry(entries, e, first) ==
  Splice(pub.manifest_json, pub.format_length, pub.format_tail,
         Dumps(PyList(IF first THEN << e >> \o entries ELSE Append(entries, e))))

\* The stored document gets one more signature entry (a registry or another
\* signer adds its own), before or after those it has; kinds tells how many
\* it may get.
AddEntry(kinds, keys, algs, chains, ktys, sounds) ==
  /\ man_pc = "registry"
  /\ tamper.kind \in kinds
  /\ \E d \in keys, alg \in algs, chain \in chains, kty \in ktys, sound \in sounds,
        first \in BOOLEAN :
       /\ content' = WithEntry(StoredEntries(Loads(content).v),
                               OtherEntry(d, alg, chain, kty, sound), first)
       /\ tamper' = [kind |-> IF tamper.kind = "none" THEN "entry" ELSE "entries",
                     pos |-> IF first THEN 1 ELSE tamper.pos + 2]
  /\ UNCHANGED << man_pc, pub, content_digest, manifest, signatures, payload,
                  payload64, v_i, nverify, man_err, dgsts >>

\* ', "fsLayers": ' , a member put after the signatures array.
T_fsLayers_member ==
  S(<<",", " ", "\"", "f", "s", "L", "a", "y", "e", "r", "s", "\"", ":", " ">>)

\* The stored document gets a second fsLayers member between the signatures
\* array and the format tail, naming another blob.
InjectLayers ==
  /\ man_pc = "registry"
  /\ tamper.kind = "none"
  /\ \E dgst \in BlobDigests :
       /\ content' = Splice(pub.manifest_json, pub.format_length, pub.format_tail,
                            Dumps(PyList(<< OwnEntry >>)) \o T_fsLayers_member
                              \o Dumps(ManifestValue(K_fsLayers, <<>>, <<>>, << dgst >>)))
       /\ tamper' = [kind |-> "layers", pos |-> 0]
  /\ UNCHANGED << man_pc, pub, content_digest, manifest, signatures, payload,
                  payload64, v_i, nverify, man_err, dgsts >>

Raise(e) ==
  /\ man_pc' = "raised"
  /\ man_err' = e

\* The items `for sig in manifest['signatures']` iterates over: [err, items].
SignatureItems(m) ==
  LET f == Field(m, K_signatures)
  IN [ err |-> FirstErr(<< f.err,
                           IF f.v.t = "list" \/ (f.v.t \in {"str", "dict"} /\ ~Truthy(f.v))
                             THEN "" ELSE "TypeError" >>),
       items |-> IF f.v.t = "list" THEN f.v.a ELSE <<>> ]

\* The exception e is raised or, when there is none, the next loop starts.
RaiseOrGo(e, pc) ==
  IF e # "" THEN Raise(e) /\ v_i' = v_i
  ELSE man_pc' = pc /\ v_i' = 1 /\ man_err' = man_err

\* Line 55 to the head of the first loop: json.loads(content) and
\* manifest['signatures'].
Loaded(r) ==
  /\ manifest' = r.v
  /\ RaiseOrGo(IF r.ok THEN SignatureItems(r.v).err ELSE "ValueError", "entries")
VerifyLoads ==
  /\ man_pc = "verify"
  /\ Loaded(Loads(content))
  /\ UNCHANGED << pub, tamper, content, content_digest, signatures, payload,
                  payload64, nverify, dgsts >>

\* One iteration of the first loop.
EntryDone(r) ==
  IF r.err # "" THEN Raise(r.err) /\ UNCHANGED << signatures, v_i >>
  ELSE /\ signatures' = Append(signatures, r.entry)
       /\ v_i' = v_i + 1
       /\ UNCHANGED << man_pc, man_err >>
VerifyEntry ==
  /\ man_pc = "entries"
  /\ v_i <= Len(SignatureItems(manifest).items)
  /\ EntryDone(VerifyEntryBody(SignatureItems(manifest).items[v_i]))
  /\ UNCHANGED << pub, tamper, content, content_digest, manifest, payload,
                  payload64, nverify, dgsts >>

\* After the first loop: the payload is reconstructed and the content
\* digest, when given, is checked (lines 81-93).
Reconstructed(r) ==
  /\ payload' = r.payload
  /\ payload64' = Unpadded64(r.payload)
  /\ RaiseOrGo(IF r.err # "" THEN r.err
               ELSE CheckContentDigest(content_digest, r.payload), "signatures")
VerifyPayload ==
  /\ man_pc = "entries"
  /\ v_i > Len(SignatureItems(manifest).items)
  /\ Reconstructed(ReconstructPayload(content, signatures))
  /\ UNCHANGED << pub, tamper, content, content_digest, manifest, signatures,
                  nverify, dgsts >>

\* One iteration of the second loop: one signature is verified.
Verified(e) ==
  IF e # "" THEN Raise(e) /\ v_i' = v_i
  ELSE v_i' = v_i + 1 /\ UNCHANGED << man_pc, man_err >>
VerifySignature ==
  /\ man_pc = "signatures"
  /\ v_i <= Len(EntriesToVerify(signatures))
  /\ Verified(VerifySignatureBody(signatures[v_i], payload64))
  /\ nverify' = nverify + 1
  /\ UNCHANGED << pub, tamper, content, content_digest, manifest, signatures,
                  payload, payload64, dgsts >>

\* After the second loop: the digests of manifest['fsLayers'] are returned
\* (lines 108-114).
LayersRead(r) ==
  IF r.err # "" THEN Raise(r.err) /\ dgsts' = dgsts
  ELSE man_pc' = "returned" /\ dgsts' = r.dgsts /\ man_err' = man_err
VerifyLayers ==
  /\ man_pc = "signatures"
  /\ v_i > Len(EntriesToVerify(signatures))
  /\ LayersRead(ReadLayers(manifest))
  /\ UNCHANGED << pub, tamper, content, content_digest, manifest, signatures,
                  payload, payload64, v_i, nverify >>

\* A step of _verify_manifest.
Verify == VerifyLoads \/ VerifyEntry \/ VerifyPayload \/ VerifySignature \/ VerifyLayers

\* ------------------------------------------------------------------------
\* Specifications
\* ------------------------------------------------------------------------

vars == << numVars, blobVars, manVars >>

InitNum == NumInit /\ BlobIdle /\ ManIdle
NextNum ==
  \/ NumShift /\ UNCHANGED << blobVars, manVars >>
  \/ NumEncode /\ UNCHANGED << blobVars, manVars >>
  \/ NumDecode /\ UNCHANGED << blobVars, manVars >>
  \/ NumDecodeExternal /\ UNCHANGED << blobVars, manVars >>
SpecNum == InitNum /\ [][NextNum]_vars

InitBlob == BlobInit /\ NumIdle /\ ManIdle
NextBlob ==
  \/ PullChunk /\ UNCHANGED << numVars, manVars >>
  \/ PullEnd /\ UNCHANGED << numVars, manVars >>
  \/ PullAbandon /\ UNCHANGED << numVars, manVars >>
SpecBlob == InitBlob /\ [][NextBlob]_vars

\* set_alias then get_alias, with the digest of the signed manifest JSON or
\* with no digest.
InitSign == ManInit /\ NumIdle /\ BlobIdle
NextSign ==
  \/ SetAlias(RepoNames, TagNames, SeqsUpTo(BlobDigests, MaxLayers), PrivateKeys,
              ManifestOrders) /\ UNCHANGED << numVars, blobVars >>
  \/ Fetch({RegistryDigest, <<>>}) /\ UNCHANGED << numVars, blobVars >>
  \/ VerifyLoads /\ UNCHANGED << numVars, blobVars >>
  \/ VerifyEntry /\ UNCHANGED << numVars, blobVars >>
  \/ VerifyPayload /\ UNCHANGED << numVars, blobVars >>
  \/ VerifySignature /\ UNCHANGED << numVars, blobVars >>
  \/ VerifyLayers /\ UNCHANGED << numVars, blobVars >>
SpecSign == InitSign /\ [][NextSign]_vars

\* One manifest, of one blob, is published; one byte of the stored text
\* changes (or none); the text is fetched and verified.
InitTamper == ManInit /\ NumIdle /\ BlobIdle
NextTamper ==
  \/ SetAlias({S(<<"r">>)}, {S(<<"t">>)}, {<< S(<<"a", "a">>) >>}, {1},
              {<< K_tag, K_name, K_fsLayers >>}) /\ UNCHANGED << numVars, blobVars >>
  \/ TamperByte /\ UNCHANGED << numVars, blobVars >>
  \/ Fetch({RegistryDigest, <<>>}) /\ UNCHANGED << numVars, blobVars >>
  \/ VerifyLoads /\ UNCHANGED << numVars, blobVars >>
  \/ VerifyEntry /\ UNCHANGED << numVars, blobVars >>
  \/ VerifyPayload /\ UNCHANGED << numVars, blobVars >>
  \/ VerifySignature /\ UNCHANGED << numVars, blobVars >>
  \/ VerifyLayers /\ UNCHANGED << numVars, blobVars >>
SpecTamper == InitTamper /\ [][NextTamper]_vars

\* One manifest is published; the stored document gets another signature
\* entry or another fsLayers member (or nothing); it is fetched with a
\* digest header of any kind, or verified without one.
InitForge == ManInit /\ NumIdle /\ BlobIdle
NextForge ==
  \/ SetAlias({S(<<"r">>)}, {S(<<"t">>)}, {<< S(<<"a", "a">>) >>}, {1},
              {<< K_tag, K_name, K_fsLayers >>}) /\ UNCHANGED << numVars, blobVars >>
  \/ AddEntry({"none"}, PrivateKeys, ForgedAlgs, ForgedChains, ForgedKtys, BOOLEAN)
       /\ UNCHANGED << numVars, blobVars >>
  \/ InjectLayers /\ UNCHANGED << numVars, blobVars >>
  \/ Fetch({RegistryDigest, OtherDigest, Sha1Digest, <<>>})
       /\ UNCHANGED << numVars, blobVars >>
  \/ VerifyLoads /\ UNCHANGED << numVars, blobVars >>
  \/ VerifyEntry /\ UNCHANGED << numVars, blobVars >>
  \/ VerifyPayload /\ UNCHANGED << numVars, blobVars >>
  \/ VerifySignature /\ UNCHANGED << numVars, blobVars >>
  \/ VerifyLayers /\ UNCHANGED << numVars, blobVars >>
SpecForge == InitForge /\ [][NextForge]_vars

\* One manifest is published; the stored document gets one or two more
\* entries that declare an algorithm and perhaps a chain, each with an EC key
\* and a sound signature by it; it is fetched with a digest
\* header or verified without one.
InitPolicy == ManInit /\ NumIdle /\ BlobIdle
NextPolicy ==
  \/ SetAlias({S(<<"r">>)}, {S(<<"t">>)}, {<< S(<<"a", "a">>) >>}, {1},
              {<< K_tag, K_name, K_fsLayers >>}) /\ UNCHANGED << numVars, blobVars >>
  \/ AddEntry({"none", "entry"}, {MaxKeys}, ForgedAlgs, ForgedChains, {T_EC}, {TRUE})
       /\ UNCHANGED << numVars, blobVars >>
  \/ Fetch({RegistryDigest, Sha1Digest, <<>>}) /\ UNCHANGED << numVars, blobVars >>
  \/ VerifyLoads /\ UNCHANGED << numVars, blobVars >>
  \/ VerifyEntry /\ UNCHANGED << numVars, blobVars >>
  \/ VerifyPayload /\ UNCHANGED << numVars, blobVars >>
  \/ VerifySignature /\ UNCHANGED << numVars, blobVars >>
  \/ VerifyLayers /\ UNCHANGED << numVars, blobVars >>
SpecPolicy == InitPolicy /\ [][NextPolicy]_vars

\* ------------------------------------------------------------------------
\* Claims
\* ------------------------------------------------------------------------

\* The unsigned big-endian value of a byte string, by Horner's rule.
RECURSIVE BigEndian(_)
BigEndian(b) ==
  IF Len(b) = 0 THEN 0 ELSE 256 * BigEndian(SubSeq(b, 1, Len(b) - 1)) + b[Len(b)]

\* C8.  BigNum round trip: _num_to_base64(n) encodes the minimal-length
\* unsigned big-endian bytes of n (one zero byte for n = 0, never the empty
\* sequence, no leading zero byte for n > 0), without '=' padding;
\* _base64_to_num of it is n; and _base64_to_num of an encoding of the same
\* bytes with extra leading zero bytes is n too.
C8_BigNumRoundTrip ==
  /\ num_pc \in {"encoded", "decoded", "decoded_ext"} =>
       /\ Len(num_st.b) >= 1
       /\ (num_in = 0 => num_st.b = <<0>>)
       /\ (num_in > 0 => num_st.b[1] # 0)
       /\ \A i \in 1..Len(num_st.b) : num_st.b[i] \in 0..255
       /\ BigEndian(num_st.b) = num_in
  /\ num_pc \in {"encoded", "decoded"} =>
       /\ \A i \in 1..Len(num_s) : num_s[i] # PadByte
       /\ urlsafe_b64decode(pad64(num_s)) = [ok |-> TRUE, v |-> num_st.b]
  /\ num_pc = "decoded" => num_out = [ok |-> TRUE, v |-> num_in]
  /\ num_pc = "decoded_ext" => num_out = [ok |-> TRUE, v |-> num_in]

\* C8 witnesses: zero has been encoded and decoded; a three-byte integer has
\* been decoded from an encoding with leading zero bytes.
C8_Witness ==
  \/ num_pc = "decoded" /\ num_in = 0 /\ num_s = S(<<"A", "A">>)
  \/ num_pc = "decoded_ext" /\ num_in = 65536 /\ Len(num_s) > 4

\* C7.  Streaming digest guard: the consumer is handed the chunks of the
\* response unchanged and in order, every one of them hashed; the digests are
\* compared only once every chunk has been handed over; a drained stream ends
\* normally exactly when the digest of the chunks is the expected one, and
\* otherwise with DXFDigestMismatchError(computed, expected); a consumer that
\* stops early gets no error.
C7_StreamingGuard ==
  /\ blob_pc # "idle" =>
       /\ blob_recv = SubSeq(blob_chunks, 1, blob_pos)
       /\ blob_sha256 = Concat(blob_recv)
  /\ blob_pc = "stopped" =>
       /\ blob_recv = blob_chunks
       /\ sha256_hexdigest(Concat(blob_chunks)) = blob_digest
       /\ blob_err = <<>>
  /\ blob_pc = "raised" =>
       /\ blob_recv = blob_chunks
       /\ sha256_hexdigest(Concat(blob_chunks)) # blob_digest
       /\ blob_err = << "DXFDigestMismatchError",
                        sha256_hexdigest(Concat(blob_chunks)), blob_digest >>
  /\ blob_pc \in {"created", "yielded", "closed"} => blob_err = <<>>

\* C7 witness: "abc", "def" were both handed over and the stream then ended
\* with a digest mismatch.
C7_Witness ==
  /\ blob_pc = "raised"
  /\ blob_recv = << S(<<"a", "b", "c">>), S(<<"d", "e", "f">>) >>

\* C1.  Sign-then-verify round trip: for every repository name, tag and
\* list of digests, _verify_manifest on the text set_alias returned, with the
\* sha256 digest of the manifest JSON that was signed, raises nothing and
\* returns the digests given to set_alias, in their order.
C1_RoundTrip ==
  (man_pc \in {"verify", "entries", "signatures", "returned", "raised"}
     /\ content = pub.wire /\ content_digest = RegistryDigest)
  => /\ man_pc # "raised"
     /\ man_err = ""
     /\ man_pc = "returned" => dgsts = pub.digests

\* C1 witness: a manifest of two digests, the same one twice, in a repository
\* whose name holds a '}', has been verified with its digest.
C1_Witness ==
  /\ man_pc = "returned"
  /\ content = pub.wire
  /\ content_digest = RegistryDigest
  /\ pub.repo = S(<<"a", "}">>)
  /\ pub.digests = << S(<<"b", "0">>), S(<<"b", "0">>) >>
  /\ dgsts = pub.digests

\* _verify_manifest has returned or raised.
Finished == man_pc \in {"returned", "raised"}

\* The entries of the signatures array of the document that is verified
\* (manifest is json.loads(content); no entries before it is loaded).
ContentEntries == SignatureItems(manifest).items

\* The key an entry's header gives: the point of its JWK.
EntryKey(jwk) ==
  [ x |-> base64_to_num(GetKey(jwk, K_x).s).v,
    y |-> base64_to_num(GetKey(jwk, K_y).s).v ]

\* The signature of an entry is one of protected64 '.' base64(pl) under the
\* key of the entry's own header.
EntryVerifies(item, pl) ==
  ES256Verify(SigningInput(GetKey(item, K_protected).s, Unpadded64(pl)),
              urlsafe_b64decode(pad64(GetKey(item, K_signature).s)).v,
              EntryKey(GetKey(GetKey(item, K_header), K_jwk)))

\* C2.  No partial acceptance: when _verify_manifest returns a digest list,
\* the payload is content[:formatLength] + formatTail, every entry of the
\* signatures array of the document verifies over protected64 '.' payload64
\* under the key of its own header, and the content digest, when one was
\* supplied, is 'sha256:' and the sha256 of that payload.
C2_NoPartialAcceptance ==
  man_pc = "returned" =>
    /\ payload = SliceTo(content, pub.format_length) \o pub.format_tail
    /\ \A i \in 1..Len(ContentEntries) : EntryVerifies(ContentEntries[i], payload)
    /\ Len(content_digest) > 0 =>
         content_digest = T_sha256_colon \o sha256_hexdigest(payload)

\* C2 witness: a document of two entries by two signers, both sound, has
\* been accepted with its digest, after two signature verifications.
C2_Witness ==
  /\ man_pc = "returned"
  /\ tamper.kind = "entry"
  /\ content_digest = RegistryDigest
  /\ Len(signatures) = 2
  /\ signatures[1].key # signatures[2].key
  /\ nverify = 2

\* The byte at position pos of the published text is in content[:formatLength]
\* or in the format tail.
InPayloadRegion(pos) ==
  pos <= pub.format_length \/ pos > Len(pub.wire) - Len(pub.format_tail)

\* The byte at position pos of the published text is in the segment between
\* formatLength and the format tail.
InSignaturesSegment(pos) ==
  pos > pub.format_length /\ pos <= Len(pub.wire) - Len(pub.format_tail)

\* C3, as stated.  Payload tamper: after a change of one byte of the payload
\* region of an accepted manifest, _verify_manifest fails with a
\* signature-verification error.
C3_Original ==
  (Finished /\ tamper.kind = "byte" /\ InPayloadRegion(tamper.pos))
  => man_pc = "raised" /\ man_err = "SignatureError"

\* C3, amended.  Payload tamper: after a change of one byte of the payload
\* region of an accepted manifest, _verify_manifest never returns digests; it
\* raises ValueError when the text no longer parses as JSON, otherwise
\* DXFDigestMismatchError when the digest of the signed manifest was
\* supplied, before any signature is verified, and the verifier's
\* SignatureError when no digest was supplied.
C3_PayloadTamper ==
  (tamper.kind = "byte" /\ InPayloadRegion(tamper.pos))
  => /\ man_pc # "returned"
     /\ dgsts = <<>>
     /\ Finished =>
          IF ~Loads(content).ok THEN man_err = "ValueError" /\ nverify = 0
          ELSE IF Len(content_digest) > 0
               THEN man_err = "DXFDigestMismatchError" /\ nverify = 0
          ELSE man_err = "SignatureError" /\ nverify = 1

\* C3 witness: a byte of content[:formatLength] was changed, the text still
\* parsed, no digest was supplied and the one signature did not verify.
C3_Witness ==
  /\ man_pc = "raised"
  /\ tamper.kind = "byte"
  /\ tamper.pos <= pub.format_length
  /\ content_digest = <<>>
  /\ man_err = "SignatureError"
  /\ nverify = 1

IsNoneAnyCase(alg) ==
  /\ Len(alg) = Len(T_none)
  /\ \A i \in 1..Len(T_none) : alg[i] = T_none[i] \/ alg[i] = T_none[i] - 32

\* The entry declares an algorithm that is "none" in some letter case.
DeclaresNone(item) == IsNoneAnyCase(GetKey(GetKey(item, K_header), K_alg).s)

\* Some entry of the document declares "none".
SomeDeclaresNone == \E i \in 1..Len(ContentEntries) : DeclaresNone(ContentEntries[i])

\* No entry before entry i raises in the first loop.
EarlierPass(i) == \A j \in 1..(i - 1) : VerifyEntryBody(ContentEntries[j]).err = ""

FirstLoopPasses ==
  /\ manifest.t = "dict"
  /\ Len(ContentEntries) >= 1
  /\ \A i \in 1..Len(ContentEntries) : VerifyEntryBody(ContentEntries[i]).err = ""

\* The method and the hex digest of a content digest.
DigestMethod(cd) == SliceTo(cd, Find(cd, C_colon))
DigestHex(cd) == SliceFrom(cd, Find(cd, C_colon) + 1)

\* C6, as stated.  A digest of a method other than sha256 fails with
\* DXFUnexpectedDigestMethodError, and a mismatching digest with
\* DXFDigestMismatchError, before any signature is verified.
C6_Original ==
  (Finished /\ Len(content_digest) > 0)
  => /\ DigestMethod(content_digest) # T_sha256 =>
          /\ man_pc = "raised"
          /\ man_err = "DXFUnexpectedDigestMethodError"
          /\ nverify = 0
     /\ (DigestMethod(content_digest) = T_sha256
           /\ DigestHex(content_digest) # sha256_hexdigest(pub.manifest_json)) =>
          /\ man_pc = "raised"
          /\ man_err = "DXFDigestMismatchError"
          /\ nverify = 0

\* C6, amended.  Ordering of the digest check: on a manifest whose entries
\* all pass the first loop, a digest of a method other than sha256 fails
\* with DXFUnexpectedDigestMethodError, and a sha256 digest other than that
\* of the reconstructed payload with DXFDigestMismatchError, in both cases
\* before any signature is verified; an entry that fails the first loop
\* raises its own error before the digest is looked at.
C6_DigestOrdering ==
  (Finished /\ Len(content_digest) > 0)
  => /\ (FirstLoopPasses /\ DigestMethod(content_digest) # T_sha256) =>
          /\ man_pc = "raised"
          /\ man_err = "DXFUnexpectedDigestMethodError"
          /\ nverify = 0
     /\ (FirstLoopPasses /\ DigestMethod(content_digest) = T_sha256
           /\ DigestHex(content_digest) # sha256_hexdigest(payload)) =>
          /\ man_pc = "raised"
          /\ man_err = "DXFDigestMismatchError"
          /\ nverify = 0
     /\ ~FirstLoopPasses =>
          /\ man_pc = "raised"
          /\ man_err \notin {"DXFUnexpectedDigestMethodError", "DXFDigestMismatchError"}
          /\ nverify = 0

\* C6 witness: a document with a second entry whose signature is unsound was
\* verified with a sha1 digest; the method was refused and no signature had
\* been verified.
C6_Witness ==
  /\ man_pc = "raised"
  /\ man_err = "DXFUnexpectedDigestMethodError"
  /\ content_digest = Sha1Digest
  /\ tamper.kind = "entry"
  /\ Len(signatures) = 2
  /\ ~EntryVerifies(ContentEntries[2], payload)
  /\ nverify = 0

\* The entry's header has a chain member.
DeclaresChain(item) == HasKey(GetKey(item, K_header), K_chain)

\* C9.  Chain policy: a manifest with an entry whose header declares a
\* chain, whatever its value, is never accepted: _verify_manifest returns no
\* digest list for it.
C9_ChainPolicy ==
  man_pc = "returned" =>
    \A i \in 1..Len(ContentEntries) : ~DeclaresChain(ContentEntries[i])

\* C10.  Returned digests are covered by the signature: the digests
\* _verify_manifest returns are the blobSums of the fsLayers of the
\* reconstructed payload content[:formatLength] + formatTail.
C10_DigestsFromPayload ==
  man_pc = "returned" =>
    /\ payload = SliceTo(content, pub.format_length) \o pub.format_tail
    /\ dgsts = ReadLayers(Loads(payload).v).dgsts

====
